---- MODULE Spec2Model ----
(***************************************************************************)
(* Model of the extraction engine of qbit-torrent-extract:                 *)
(*   src/src/qbit_torrent_extract/extractor.py  (ArchiveExtractor)         *)
(*   src/src/qbit_torrent_extract/validator.py  (ArchiveValidator)         *)
(*   src/src/qbit_torrent_extract/config.py     (Config)                   *)
(*   src/src/qbit_torrent_extract/statistics.py (StatisticsManager)        *)
(* The archive codec libraries (zipfile, rarfile, py7zr, tarfile) and the  *)
(* operating system are the environment: what they answer for a file is    *)
(* drawn from bounded sets at the moment the engine asks.                  *)
(***************************************************************************)
EXTENDS Integers, Sequences, FiniteSets, TLC

\* ------------------------------------------------------------------ bounds
\* Sizes reported by a codec (sum of members' sizes, on-disk size): 0..MaxSize.
MaxSize == 2
\* Config.max_extraction_ratio ranges over 1..MaxRatio.
MaxRatio == 2
\* Config.max_nested_depth ranges over 1..MaxDepth.
MaxDepth == 2
\* An archive of the model lists at most MaxMembers members.
MaxMembers == 2
\* The directory tree holds at most MaxFiles files when the extractor is built.
MaxFiles == 2
\* A statistics manager called on its own starts at most MaxRuns runs.
MaxRuns == 2
\* Its live run and its file together hold at most MaxRecorded recorded
\* archives (processed or skipped).
MaxRecorded == 2
\* get_recent_runs is asked for 0..MaxLimit runs.
MaxLimit == 2

\* ------------------------------------------------------------- file names
\* Files that may exist under the root directory. Every archive of the model
\* sits directly in the root, so a member named m is written to root/m.
RootPaths ==
  { "a.zip", "b.tar", "c.rar", "d.7z", "s.part2.rar", "s.r00", "n.txt",
    "evil.txt" }

\* Files the tree may hold before the first run.
InitialFiles == { "a.zip", "b.tar", "s.part2.rar", "s.r00", "n.txt" }

\* Paths that resolve outside the root directory (root/../evil.txt).
OutsidePaths == { "../evil.txt" }

AllPaths == RootPaths \cup OutsidePaths

\* Entries of a directory handed to the scan on its own: names of every
\* detected type, an upper-case name, an unfinished download, a text file.
ScanPaths ==
  { "U.ZIP", "a.zip", "a.zip.part", "dir.zip", "e.tar.gz", "f.gz", "n.txt",
    "x.tgz" }

\* The entries that are directories, not files.
Directories == { "dir.zip" }

\* Member names an archive may list. The archives of the model nest in one
\* order, a.zip > b.tar > c.rar > d.7z. Members that leave the directory are
\* given to zip and tar archives only: what rarfile and py7zr do with such a
\* member is the libraries' business.
PossibleMembers(p) ==
  CASE p = "a.zip"       -> { "n.txt", "b.tar", "../evil.txt" }
    [] p = "b.tar"       -> { "n.txt", "c.rar", "../evil.txt" }
    [] p = "c.rar"       -> { "n.txt", "d.7z" }
    [] p = "d.7z"        -> { "n.txt" }
    [] p = "s.part2.rar" -> { "n.txt" }
    [] OTHER             -> { }

\* The dot-separated components of the final path component (Path.name).
NameParts(p) ==
  CASE p = "a.zip"       -> <<"a", "zip">>
    [] p = "b.tar"       -> <<"b", "tar">>
    [] p = "c.rar"       -> <<"c", "rar">>
    [] p = "d.7z"        -> <<"d", "7z">>
    [] p = "e.tar.gz"    -> <<"e", "tar", "gz">>
    [] p = "a.zip.part"  -> <<"a", "zip", "part">>
    [] p = "dir.zip"     -> <<"dir", "zip">>
    [] p = "f.gz"        -> <<"f", "gz">>
    [] p = "s.part2.rar" -> <<"s", "part2", "rar">>
    [] p = "s.r00"       -> <<"s", "r00">>
    [] p = "n.txt"       -> <<"n", "txt">>
    [] p = "evil.txt"    -> <<"evil", "txt">>
    [] p = "../evil.txt" -> <<"evil", "txt">>
    [] p = "U.ZIP"       -> <<"U", "ZIP">>
    [] p = "V.TAR.GZ"    -> <<"V", "TAR", "GZ">>
    [] p = "w.TGZ"       -> <<"w", "TGZ">>
    [] p = "x.tgz"       -> <<"x", "tgz">>
    [] p = "y.Tar"       -> <<"y", "Tar">>
    [] p = ".zip"        -> <<"", "zip">>
    [] p = "README"      -> <<"README">>
    [] OTHER             -> <<p>>

\* str.lower() on one component.
Lower(s) ==
  CASE s = "ZIP" -> "zip"
    [] s = "TAR" -> "tar"
    [] s = "Tar" -> "tar"
    [] s = "GZ"  -> "gz"
    [] s = "TGZ" -> "tgz"
    [] s = "U"   -> "u"
    [] s = "V"   -> "v"
    [] s = "README" -> "readme"
    [] OTHER     -> s

Last(s) == s[Len(s)]

\* pathlib's Path.suffix: the text from the last dot on, when that dot is
\* neither the first nor the last character of the name; "" otherwise.
\* The leading dot is left out here: ".zip" is written "zip".
Suffix(parts) ==
  IF Len(parts) >= 2 /\ Last(parts) # "" /\ ~(Len(parts) = 2 /\ parts[1] = "")
    THEN Last(parts)
    ELSE ""

\* ArchiveValidator.SUPPORTED_EXTENSIONS, keyed without the leading dot.
\* "none" stands for a missing key (dict.get returning None).
SUPPORTED_EXTENSIONS(ext) ==
  CASE ext = "zip" -> "zip"
    [] ext = "rar" -> "rar"
    [] ext = "7z"  -> "7z"
    [] ext = "tar" -> "tar"
    [] ext = "tgz" -> "tar.gz"
    [] ext = "gz"  -> "gz"
    [] OTHER       -> "none"

\* name_lower.endswith('.tar.gz') or name_lower.endswith('.tgz')
EndsWithCompound(parts) ==
  \/ /\ Len(parts) >= 3
     /\ Lower(parts[Len(parts) - 1]) = "tar"
     /\ Lower(Last(parts)) = "gz"
  \/ /\ Len(parts) >= 2
     /\ Lower(Last(parts)) = "tgz"

\* detect_archive_type looking the suffix up as written, not lower-cased.
detect_archive_type_CaseSensitive(parts) ==
  IF EndsWithCompound(parts)
    THEN "tar.gz"
    ELSE SUPPORTED_EXTENSIONS(Suffix(parts))

\* ArchiveValidator.detect_archive_type
detect_archive_type(parts) ==
  IF EndsWithCompound(parts)
    THEN "tar.gz"
    ELSE SUPPORTED_EXTENSIONS(Lower(Suffix(parts)))

\* ----------------------------------------------------------- configuration
\* Config.__post_init__ admits max_extraction_ratio >= 1 and
\* max_nested_depth >= 1; preserve_originals is a free flag.
Configs ==
  [ max_extraction_ratio : 1..MaxRatio,
    max_nested_depth     : 1..MaxDepth,
    preserve_originals   : BOOLEAN ]

\* The configurations the engine's runs are started with. The engine reads
\* max_extraction_ratio inside validate_archive only, and under the strictest
\* limit every verdict of validate_archive is reachable with the sizes of
\* RunProbes (a ratio below, at and above the limit).
RunConfigs == { c \in Configs : c.max_extraction_ratio = 1 }

\* ----------------------------------------------- what a codec library answers
\* opens:  "ok"    the archive opens and lists
\*         "bad"   the library raises its own bad-archive exception
\*                 (BadZipFile, BadRarFile, TarError, Bad7zFile)
\*         "error" any other exception while opening, testing or listing
\* bad_member:      ZipFile.testzip() names a corrupted member
\* needs_password:  needs_password() of rarfile / py7zr
\* file_size:       sum of the members' uncompressed sizes
\* compress_size:   sum of the members' compressed sizes (zip, rar, 7z listing)
\* st_size:         on-disk size of the archive file
OkProbes ==
  [ opens : {"ok"}, bad_member : {FALSE}, needs_password : {FALSE},
    file_size : 0..MaxSize, compress_size : 0..MaxSize, st_size : 0..MaxSize ]

FailProbes ==
  [ opens : {"bad", "error"}, bad_member : {FALSE}, needs_password : {FALSE},
    file_size : {0}, compress_size : {0}, st_size : {1} ]
  \cup
  [ opens : {"ok"}, bad_member : {TRUE}, needs_password : {FALSE},
    file_size : {1}, compress_size : {1}, st_size : {1} ]
  \cup
  [ opens : {"ok"}, bad_member : {FALSE}, needs_password : {TRUE},
    file_size : {1}, compress_size : {1}, st_size : {1} ]

Probes == OkProbes \cup FailProbes

\* The probes the engine's runs draw from: the engine reads nothing of a
\* ValidationResult but is_valid, archive_type and error_message, so one
\* compressed size is enough to reach every verdict.
RunProbes ==
  FailProbes \cup
  { pr \in OkProbes : pr.compress_size = 1 /\ pr.st_size = 1 }

\* The answers the codec of the file named `parts` can give: testzip() exists
\* for zip only, and needs_password() is asked of rar and 7z only.
RunProbesFor(parts) ==
  { pr \in RunProbes :
      /\ pr.bad_member => detect_archive_type(parts) = "zip"
      /\ pr.needs_password => detect_archive_type(parts) \in {"rar", "7z"} }

\* ------------------------------------------------------------ ValidationResult
\* extraction_ratio is kept exact, as the pair <<numerator, denominator>>;
\* the dataclass default 0.0 is <<0, 1>> and 1.0 is <<1, 1>>.
\* error_message is kept as a tag; "none" stands for None.
Rejected(archive_type, error_message) ==
  [ is_valid |-> FALSE, archive_type |-> archive_type,
    error_message |-> error_message,
    total_size |-> 0, compressed_size |-> 0, extraction_ratio |-> <<0, 1>> ]

\* total_size / compressed_size if compressed_size > 0 else 1.0
ExtractionRatio(total_size, compressed_size) ==
  IF compressed_size > 0 THEN <<total_size, compressed_size>> ELSE <<1, 1>>

\* The limit test written with >=, which also rejects a ratio equal to the
\* limit.
ExceedsLimit_AtLimit(ratio, cfg) ==
  ratio[1] >= cfg.max_extraction_ratio * ratio[2]

\* extraction_ratio > self.config.max_extraction_ratio
ExceedsLimit(ratio, cfg) ==
  ratio[1] > cfg.max_extraction_ratio * ratio[2]

\* The tail shared by the four _validate_* methods: the ratio, the limit
\* test and the two ValidationResult constructions.
SizeVerdict(archive_type, total_size, compressed_size, cfg) ==
  LET ratio == ExtractionRatio(total_size, compressed_size)
  IN  [ is_valid |-> ~ExceedsLimit(ratio, cfg),
        archive_type |-> archive_type,
        error_message |-> IF ExceedsLimit(ratio, cfg) THEN "ratio" ELSE "none",
        total_size |-> total_size,
        compressed_size |-> compressed_size,
        extraction_ratio |-> ratio ]

\* ArchiveValidator._validate_zip
validate_zip(probe, cfg) ==
  IF probe.opens = "bad" THEN Rejected("zip", "invalid")
  ELSE IF probe.bad_member THEN Rejected("zip", "corrupted")
  ELSE SizeVerdict("zip", probe.file_size, probe.compress_size, cfg)

\* _validate_rar without the needs_password() test.
validate_rar_NoPasswordCheck(probe, cfg) ==
  IF probe.opens = "bad" THEN Rejected("rar", "invalid")
  ELSE SizeVerdict("rar", probe.file_size, probe.compress_size, cfg)

\* ArchiveValidator._validate_rar
validate_rar(probe, cfg) ==
  IF probe.opens = "bad" THEN Rejected("rar", "invalid")
  ELSE IF probe.needs_password THEN Rejected("rar", "password")
  ELSE SizeVerdict("rar", probe.file_size, probe.compress_size, cfg)

\* mode = 'r:gz' if archive_path.suffix in ('.gz', '.tgz') else 'r'
\* (the suffix is compared as written, without lower-casing)
TarMode(parts) ==
  IF Suffix(parts) \in {"gz", "tgz"} THEN "r:gz" ELSE "r"

\* ArchiveValidator._validate_tar: the compressed size is the file's size.
validate_tar(parts, probe, cfg) ==
  IF probe.opens = "bad" THEN Rejected("tar", "invalid")
  ELSE SizeVerdict(IF TarMode(parts) = "r:gz" THEN "tar.gz" ELSE "tar",
                   probe.file_size, probe.st_size, cfg)

\* ArchiveValidator._validate_7z: a listing that reports 0 compressed bytes
\* falls back to the file's size.
validate_7z(probe, cfg) ==
  IF probe.opens = "bad" THEN Rejected("7z", "invalid")
  ELSE IF probe.needs_password THEN Rejected("7z", "password")
  ELSE SizeVerdict("7z", probe.file_size,
                   IF probe.compress_size = 0 THEN probe.st_size
                                              ELSE probe.compress_size,
                   cfg)

\* No ValidationResult: the exception went past validate_archive.
Propagated == Rejected("none", "propagated")

\* An outer handler that names the codecs' bad-archive exceptions only.
ValidatorCatches_BadArchiveOnly(exc) ==
  exc \in {"BadZipFile", "BadRarFile", "TarError", "Bad7zFile"}

\* `except Exception as e` around the dispatch in validate_archive.
ValidatorCatches(exc) ==
  exc \in {"BadZipFile", "BadRarFile", "TarError", "Bad7zFile", "OSError",
           "RuntimeError"}

\* ArchiveValidator.validate_archive. An exception that no _validate_*
\* method catches (probe.opens = "error", an OSError say) is turned into a
\* rejection carrying the detected type.
validate_archive(exists, parts, probe, cfg) ==
  LET archive_type == detect_archive_type(parts)
  IN  IF ~exists THEN Rejected("none", "not_found")
      ELSE IF archive_type = "none" THEN Rejected("none", "unsupported")
      ELSE IF archive_type \notin {"zip", "rar", "tar", "tar.gz", "7z"}
        THEN Rejected("none", "not_implemented")
      ELSE IF probe.opens = "error"
        THEN IF ValidatorCatches("OSError")
               THEN Rejected(archive_type, "exception")
               ELSE Propagated
      ELSE IF archive_type = "zip" THEN validate_zip(probe, cfg)
      ELSE IF archive_type = "rar" THEN validate_rar(probe, cfg)
      ELSE IF archive_type = "7z" THEN validate_7z(probe, cfg)
      ELSE validate_tar(parts, probe, cfg)

\* check_nested_depth counting the archive itself as a level: a nested member
\* is at current_depth + 2.
check_nested_depth_CountsSelf(parts, names, listing_raises, current_depth, cfg) ==
  LET archive_type == detect_archive_type(parts)
      nested == \E n \in names : detect_archive_type(NameParts(n)) # "none"
  IN  IF current_depth >= cfg.max_nested_depth THEN <<FALSE, current_depth>>
      ELSE IF archive_type \notin {"zip", "rar", "tar", "tar.gz", "7z"}
        THEN <<TRUE, current_depth>>
      ELSE IF listing_raises THEN <<TRUE, current_depth>>
      ELSE IF nested
        THEN IF current_depth + 2 >= cfg.max_nested_depth
               THEN <<FALSE, current_depth + 2>>
               ELSE <<TRUE, current_depth + 2>>
      ELSE <<TRUE, current_depth>>

\* The archive extension of a member name counts: the name lists as nested.
NestedNames(names) ==
  { n \in names : detect_archive_type(NameParts(n)) # "none" }

\* check_nested_depth adding one level for every nested member it meets.
check_nested_depth_PerMember(parts, names, listing_raises, current_depth, cfg) ==
  LET archive_type == detect_archive_type(parts)
      found == current_depth + Cardinality(NestedNames(names))
  IN  IF current_depth >= cfg.max_nested_depth THEN <<FALSE, current_depth>>
      ELSE IF archive_type \notin {"zip", "rar", "tar", "tar.gz", "7z"}
        THEN <<TRUE, current_depth>>
      ELSE IF listing_raises THEN <<TRUE, current_depth>>
      ELSE IF found > current_depth
        THEN <<found < cfg.max_nested_depth, found>>
      ELSE <<TRUE, current_depth>>

\* ArchiveValidator.check_nested_depth: <<within_limit, max_depth_found>>.
\* names are the archive's member names (regular files); listing_raises says
\* that opening or listing the archive raised, which the method swallows.
check_nested_depth(parts, names, listing_raises, current_depth, cfg) ==
  LET archive_type == detect_archive_type(parts)
      nested == \E n \in names : detect_archive_type(NameParts(n)) # "none"
  IN  IF current_depth >= cfg.max_nested_depth THEN <<FALSE, current_depth>>
      ELSE IF archive_type = "none" THEN <<TRUE, current_depth>>
      ELSE IF archive_type \notin {"zip", "rar", "tar", "tar.gz", "7z"}
        THEN <<TRUE, current_depth>>
      ELSE IF listing_raises THEN <<TRUE, current_depth>>
      ELSE IF nested
        THEN IF current_depth + 1 >= cfg.max_nested_depth
               THEN <<FALSE, current_depth + 1>>
               ELSE <<TRUE, current_depth + 1>>
      ELSE <<TRUE, current_depth>>

\* ------------------------------------------------------------------- state
VARIABLES
  config,              \* the Config the extractor and its validator hold
  built,               \* how ArchiveExtractor was constructed:
                       \*   "config_only"  ArchiveExtractor(config=cfg)
                       \*   "from_config"  ArchiveExtractor(preserve_archives=
                       \*                  cfg.preserve_originals, config=cfg),
                       \*                  the call in main.py
  preserve_archives,   \* self.preserve_archives
  fs,                  \* the paths that exist on disk
  extracted_archives,  \* self.extracted_archives, the processed set
  extraction_stats,    \* self.extraction_stats
  pc,                  \* position in extract_all
  iteration,           \* scans started in this run (loop variable + 1)
  new_archives,        \* the list bound by the current iteration's scan
  idx,                 \* position of the inner for loop in new_archives
  attempts,            \* calls of _extract_single_archive per path, this run
  last,                \* what the latest _extract_single_archive call did
  vin,                 \* the arguments of a call made from outside
  validation,          \* the ValidationResult that call returned
  world,               \* what the files under the root are:
                       \*   kind "any"    whatever the codecs answer
                       \*   kind "chain"  a.zip heads a chain of k intact
                       \*                 archives, each holding the next
  previous,            \* the dict the latest finished run returned:
                       \*   runs      runs finished so far
                       \*   returned  its value when it was returned
                       \*   object    the value that dict object holds now
  calls_left,          \* extract_all calls the caller will still make
  current_run,         \* StatisticsManager.current_run: << >> is None,
                       \*   << r >> the ExtractionRunStats r
  stats_file,          \* "recent_runs" of the statistics file, oldest first
  started,             \* runs the statistics manager has started so far
  reply                \* what the latest call made from outside returned

vars ==
  << config, built, preserve_archives, fs, extracted_archives,
     extraction_stats, pc, iteration, new_archives, idx, attempts, last,
     vin, validation, world, previous, calls_left, current_run, stats_file,
     started, reply >>

\* The extractor's construction-time attributes.
ctorVars == << config, built, preserve_archives >>

\* The variables of a direct validator call.
callVars == << vin, validation >>

\* The caller's view across runs.
callerVars == << previous, calls_left >>

\* The statistics manager and its file.
statVars == << current_run, stats_file, started, reply >>

\* The dict extract_all installs at the start of a run (and __init__ before it).
ZeroStats ==
  [ total_processed |-> 0, successful |-> 0, failed |-> 0, skipped |-> 0,
    errors |-> << >> ]

NoCall ==
  [ path |-> "none", outcome |-> "none", validated |-> FALSE,
    is_valid |-> FALSE, error_message |-> "none", within_limit |-> FALSE,
    nested_depth |-> 0, dispatched |-> FALSE, archive_type |-> "none",
    needs_password |-> FALSE, touched |-> FALSE ]

\* The answers of a codec that was never asked (an archive skipped before
\* validation).
NoAnswer ==
  [ opens |-> "none", bad_member |-> FALSE, needs_password |-> FALSE,
    file_size |-> 0, compress_size |-> 0, st_size |-> 0 ]

\* The depth check was not reached.
NoDepth == <<FALSE, 0>>

\* --------------------------------------------------------- directory scan
\* The keys of SUPPORTED_EXTENSIONS, each a sequence of components: the
\* pattern "*.tar.gz" is <<"tar", "gz">>.
ScanPatterns ==
  { <<"zip">>, <<"rar">>, <<"7z">>, <<"tar">>, <<"tar", "gz">>, <<"tgz">>,
    <<"gz">> }

\* Path.rglob("*" + ext) on a case-sensitive filesystem: the name ends with
\* ext, compared as written.
GlobMatches(parts, pat) ==
  /\ Len(parts) > Len(pat)
  /\ \A i \in 1..Len(pat) : parts[Len(parts) - Len(pat) + i] = pat[i]

\* Ascending order of the paths, as sorted() orders Path objects.
PathOrder ==
  << "U.ZIP", "a.zip", "a.zip.part", "b.tar", "c.rar", "d.7z", "dir.zip",
     "e.tar.gz", "evil.txt", "f.gz", "n.txt", "s.part2.rar", "s.r00",
     "x.tgz" >>

InSet(S) == [p \in AllPaths \cup ScanPaths |-> p \in S]

\* list(set(archives)) without sorted(): the set's own iteration order, here
\* the descending one.
Sorted_SetOrder(S) ==
  LET member == InSet(S)
      n == Len(PathOrder)
  IN  SelectSeq([i \in 1..n |-> PathOrder[n + 1 - i]], LAMBDA p : member[p])

\* sorted(set(archives))
Sorted(S) == LET member == InSet(S) IN SelectSeq(PathOrder, LAMBDA p : member[p])

\* ArchiveExtractor._find_all_archives, before sorting: the set of matches
\* under the root, files and directories alike.
find_all_archives(files) ==
  { p \in files \ OutsidePaths :
      \E pat \in ScanPatterns : GlobMatches(NameParts(p), pat) }

\* ------------------------------------------------------------- extraction
\* zipfile drops ".." components of a member name before writing it.
ZipTarget(name) == IF name = "../evil.txt" THEN "evil.txt" ELSE name

\* tarfile.extractall(path=parent) joins the member name to the directory.
TarTarget(name) == name

Targets(archive_type, names) ==
  IF archive_type \in {"tar", "tar.gz"}
    THEN { TarTarget(n) : n \in names }
    ELSE { ZipTarget(n) : n \in names }

\* The member lists the model gives the archive at path p.
MemberSets(p) ==
  { S \in SUBSET PossibleMembers(p) : Cardinality(S) <= MaxMembers }

\* What an extractall call can do: write every member and return, or raise
\* after writing some of them (bad archive, permission denied, a refused
\* member, any other error).
ExtractAllOutcomes(archive_type, names) ==
  { [ raised |-> FALSE, created |-> Targets(archive_type, names) ] }
  \cup
  { [ raised |-> TRUE, created |-> S ] :
      S \in SUBSET Targets(archive_type, names) }

\* _extract_zip, _extract_tar: every exception becomes False.
extract_plain(x) == [ success |-> ~x.raised, created |-> x.created ]

\* _extract_rar, _extract_7z: the needs_password re-check comes first.
extract_guarded(probe, x) ==
  IF probe.needs_password
    THEN [ success |-> FALSE, created |-> {} ]
    ELSE [ success |-> ~x.raised, created |-> x.created ]

\* The dispatch on validation.archive_type in _extract_single_archive.
Dispatch(archive_type, probe, x) ==
  IF archive_type \in {"zip", "tar", "tar.gz"} THEN extract_plain(x)
  ELSE extract_guarded(probe, x)

\* ------------------------------------------------ the files of the world
\* The archives of a chain, outermost first.
ChainOrder == << "a.zip", "b.tar", "c.rar", "d.7z" >>

ChainWorlds == [ kind : {"chain"}, k : 1..Len(ChainOrder) ]

\* An archive that opens, has no corrupted member, needs no password and
\* does not expand, so its ratio is within every limit a Config admits.
IntactProbe ==
  [ opens |-> "ok", bad_member |-> FALSE, needs_password |-> FALSE,
    file_size |-> 1, compress_size |-> 1, st_size |-> 1 ]

\* The members of the archive at p in a chain of k archives: the next archive
\* of the chain, and a text file in the innermost one.
ChainMembers(k, p) ==
  LET i == CHOOSE j \in 1..Len(ChainOrder) : ChainOrder[j] = p
  IN  IF i < k THEN { ChainOrder[i + 1] } ELSE { "n.txt" }

\* What the codec answers for the file at p.
ProbesIn(w, p) ==
  IF w.kind = "chain" THEN { IntactProbe } ELSE RunProbesFor(NameParts(p))

\* The member list of the archive at p.
MembersIn(w, p) ==
  IF w.kind = "chain" THEN { ChainMembers(w.k, p) } ELSE MemberSets(p)

\* What extractall does with these members.
OutcomesIn(w, archive_type, names) ==
  IF w.kind = "chain"
    THEN { [ raised |-> FALSE, created |-> Targets(archive_type, names) ] }
    ELSE ExtractAllOutcomes(archive_type, names)

\* ------------------------------------------------ the statistics manager
\* The keys archives_by_type can get: a ValidationResult's archive_type, or
\* "unknown" where the engine found none.
RecordedTypes == { "zip", "rar", "7z", "tar", "tar.gz", "unknown" }

\* data["recent_runs"][-100:]: the file keeps the latest runs only. The model
\* keeps the latest KeepRuns runs where the program keeps 100.
KeepRuns == 2

\* ExtractionRunStats(run_id=..., ...): the counters, the per-type breakdown
\* (a key that is absent from the dict counts 0) and the per-archive entries,
\* of which path and type are kept. Sizes, times and the error breakdown are
\* left out.
NewRun(run_id) ==
  [ run_id |-> run_id, total_processed |-> 0, successful |-> 0, failed |-> 0,
    skipped |-> 0, archives_by_type |-> [t \in RecordedTypes |-> 0],
    archives |-> << >> ]

\* StatisticsManager.start_extraction_run: run_id is a clock reading, written
\* here as the number of the run.
start_extraction_run(n) == << NewRun(n + 1) >>

\* record_archive_processed with the entry left out of the archives list.
record_archive_processed_NoEntry(run, path, archive_type, success) ==
  IF run = << >> THEN run
  ELSE << [ run[1] EXCEPT
              !.total_processed = @ + 1,
              !.successful = IF success THEN @ + 1 ELSE @,
              !.failed = IF success THEN @ ELSE @ + 1,
              !.archives_by_type[archive_type] = @ + 1 ] >>

\* StatisticsManager.record_archive_processed
record_archive_processed(run, path, archive_type, success) ==
  IF run = << >> THEN run
  ELSE << [ run[1] EXCEPT
              !.archives = Append(@, [ path |-> path, type |-> archive_type ]),
              !.total_processed = @ + 1,
              !.successful = IF success THEN @ + 1 ELSE @,
              !.failed = IF success THEN @ ELSE @ + 1,
              !.archives_by_type[archive_type] = @ + 1 ] >>

\* StatisticsManager.record_archive_skipped
record_archive_skipped(run) ==
  IF run = << >> THEN run
  ELSE << [ run[1] EXCEPT !.total_processed = @ + 1, !.skipped = @ + 1 ] >>

\* The slice seq[-n:] of Python for n >= 0: the last n elements, and the
\* whole list for n = 0, since -0 is 0.
TailSlice(seq, n) ==
  IF n = 0 \/ n >= Len(seq) THEN seq
  ELSE SubSeq(seq, Len(seq) - n + 1, Len(seq))

\* list(reversed(seq))
Reversed(seq) == [ i \in 1..Len(seq) |-> seq[Len(seq) + 1 - i] ]

\* What the file system does with the statistics file: reading it may fail
\* (_read_stats_file then answers an empty structure) and so may writing it.
FileOutcomes == [ read_ok : BOOLEAN, write_ok : BOOLEAN ]

\* StatisticsManager._save_run_statistics: read, append, trim, write; an
\* exception is logged and the file stays as it was.
save_run_statistics(file, run, f) ==
  IF ~f.write_ok THEN file
  ELSE TailSlice(Append(IF f.read_ok THEN file ELSE << >>, run), KeepRuns)

\* finish_extraction_run that leaves the finished run active.
finish_extraction_run_StaysActive(run, file, f) ==
  IF run = << >>
    THEN [ current_run |-> run, stats_file |-> file, returned |-> << >> ]
    ELSE [ current_run |-> run,
           stats_file |-> save_run_statistics(file, run[1], f),
           returned |-> run ]

\* StatisticsManager.finish_extraction_run: the manager's run, the file and
\* the value returned (<< >> is None).
finish_extraction_run(run, file, f) ==
  IF run = << >>
    THEN [ current_run |-> run, stats_file |-> file, returned |-> << >> ]
    ELSE [ current_run |-> << >>,
           stats_file |-> save_run_statistics(file, run[1], f),
           returned |-> run ]

\* StatisticsManager.get_recent_runs(limit)
get_recent_runs(file, limit, read_ok) ==
  IF ~read_ok THEN << >> ELSE Reversed(TailSlice(file, limit))

\* ------------------------------------------------- the legacy counters
\* self.extracted_archives.add(archive_path), left out.
MarkProcessed_Forgotten(processed, p) == processed

\* self.extracted_archives.add(archive_path)
MarkProcessed(processed, p) == processed \cup {p}

\* The counter raised by two for one call.
CountProcessed_Twice(st) == [st EXCEPT !.total_processed = @ + 2]

\* self.extraction_stats['total_processed'] += 1
CountProcessed(st) == [st EXCEPT !.total_processed = @ + 1]

\* ['skipped'] += 1
RecordSkipped(st) == [st EXCEPT !.skipped = @ + 1]

\* ['successful'] += 1
RecordSuccessful(st) == [st EXCEPT !.successful = @ + 1]

\* ['failed'] += 1 followed by ['errors'].append(f"{archive_path}: {error_msg}")
\* (validation failure, depth failure, the except clause)
RecordFailed(st, p, message) ==
  [st EXCEPT !.failed = @ + 1,
             !.errors = Append(@, [path |-> p, message |-> message])]

\* The else branch after the dispatch: ['failed'] += 1 and nothing else.
RecordDispatchFailed(st) == [st EXCEPT !.failed = @ + 1]

\* The "Extraction not implemented" branch: an entry in errors, success
\* stays False.
RecordNotImplemented(st, p) ==
  [st EXCEPT !.errors = Append(@, [path |-> p, message |-> "not_implemented"])]

\* --------------------------------------------------------- construction
\* ArchiveExtractor.__init__(preserve_archives=True, ..., config=None):
\* the attribute is the argument, and the argument defaults to True whatever
\* config.preserve_originals says.
Constructions == {"config_only", "from_config"}

init_preserve_archives(construction, cfg) ==
  IF construction = "config_only" THEN TRUE ELSE cfg.preserve_originals

\* ------------------------------------------------ _extract_single_archive
\* The early returns with the depth check's verdict ignored.
Gate_NoDepthCheck(is_valid, within_limit) ==
  IF ~is_valid THEN "validation_failed" ELSE "dispatch"

\* The two early returns before the try block: validation, then depth.
Gate(is_valid, within_limit) ==
  IF ~is_valid THEN "validation_failed"
  ELSE IF ~within_limit THEN "depth_exceeded"
  ELSE "dispatch"

\* os.remove(archive_path) returns or raises an OSError.
RemoveOutcomes == {"removed", "PermissionError"}

RemovesIn(w) == IF w.kind = "chain" THEN {"removed"} ELSE RemoveOutcomes

\* What reading and writing the statistics file do.
FilesIn(w) ==
  IF w.kind = "chain" THEN { fo \in FileOutcomes : fo.read_ok /\ fo.write_ok }
                      ELSE FileOutcomes

\* An except clause that names the codecs' bad-archive exceptions only.
Caught_BadArchiveOnly(exc) == exc \in {"BadZipFile", "BadRarFile", "TarError"}

\* `except Exception as e` around the dispatch and the removal.
Caught(exc) == exc \in {"PermissionError", "OSError", "RuntimeError"}

\* The record of one call: its outcome, the locals `validation`,
\* `within_limit` and `depth`, and what the codec answered (probe).
Call(p, outcome, v, depth, dispatched, probe) ==
  [ path |-> p, outcome |-> outcome, validated |-> outcome # "skipped",
    is_valid |-> v.is_valid, error_message |-> v.error_message,
    within_limit |-> depth[1], nested_depth |-> depth[2],
    dispatched |-> dispatched, archive_type |-> v.archive_type,
    needs_password |-> probe.needs_password, touched |-> FALSE ]

\* The inner loop reading a list that takes in, behind its end, the archives
\* that have appeared on disk since the scan.
ForLoopList_Rescanned(list, files, processed) ==
  list \o Sorted((find_all_archives(files) \ processed)
                   \ { list[i] : i \in 1..Len(list) })

\* `for archive_path in tqdm(new_archives, ...)`: the loop reads the list the
\* scan bound, and nothing in its body assigns or extends that list.
ForLoopList(list, files, processed) == list

\* The stats_manager calls of one _extract_single_archive call, by the way
\* the call ends: record_archive_skipped for a skip, record_archive_processed
\* on a failed validation (archive_type or "unknown"), on a failed depth
\* check, after the dispatch (success or not) and in the except clause,
\* which runs after the success was recorded when os.remove raises.
Recorded(run, call, escaped) ==
  LET t == IF call.archive_type = "none" THEN "unknown" ELSE call.archive_type
      p == call.path
  IN  CASE call.outcome = "skipped" -> record_archive_skipped(run)
        [] call.outcome \in {"validation_failed", "depth_exceeded",
                             "dispatch_failed"}
             -> record_archive_processed(run, p, t, FALSE)
        [] call.outcome = "success"
             -> record_archive_processed(run, p, t, TRUE)
        [] call.outcome = "remove_failed"
             -> IF escaped
                  THEN record_archive_processed(run, p, t, TRUE)
                  ELSE record_archive_processed(
                         record_archive_processed(run, p, t, TRUE), p, t, FALSE)
        [] OTHER -> run

\* The effect of one call on the state, and the inner for loop's advance.
\* escaped: an exception left _extract_single_archive and so extract_all.
Step(p, stats, processed, files, call, escaped) ==
  /\ extraction_stats' = stats
  /\ extracted_archives' = processed
  /\ fs' = files
  /\ last' = [call EXCEPT !.touched = (files # fs)]
  /\ attempts' = [attempts EXCEPT ![p] = @ + 1]
  /\ idx' = idx + 1
  /\ pc' = IF escaped THEN "raised"
           ELSE IF idx + 1 > Len(new_archives) THEN "scan"
           ELSE "process"
  /\ current_run' = Recorded(current_run, last', escaped)
  /\ new_archives' = ForLoopList(new_archives, files, processed)
  /\ UNCHANGED << ctorVars, callVars, callerVars, world, iteration,
                  stats_file, started, reply >>

\* The try block once validation and the depth check let the archive through.
Extract(p, st0, v, depth, probe, x) ==
  LET implemented == v.archive_type \in {"zip", "rar", "7z", "tar", "tar.gz"}
      r      == IF implemented THEN Dispatch(v.archive_type, probe, x)
                ELSE [ success |-> FALSE, created |-> {} ]
      st1    == IF implemented THEN st0 ELSE RecordNotImplemented(st0, p)
      files1 == fs \cup r.created
      done   == MarkProcessed(extracted_archives, p)
  IN  IF ~r.success
        THEN Step(p, RecordDispatchFailed(st1), done, files1,
                  Call(p, "dispatch_failed", v, depth, TRUE, probe),
                  FALSE)
      ELSE IF preserve_archives
        THEN Step(p, RecordSuccessful(st1), done, files1,
                  Call(p, "success", v, depth, TRUE, probe), FALSE)
      ELSE \E rm \in RemovesIn(world) :
             IF rm = "removed"
               THEN Step(p, RecordSuccessful(st1), done, files1 \ {p},
                         Call(p, "success", v, depth, TRUE, probe),
                         FALSE)
             ELSE IF Caught(rm)
               THEN Step(p, RecordFailed(RecordSuccessful(st1), p, "unexpected"),
                         done, files1,
                         Call(p, "remove_failed", v, depth, TRUE, probe),
                         FALSE)
             ELSE Step(p, RecordSuccessful(st1), done, files1,
                       Call(p, "remove_failed", v, depth, TRUE, probe),
                       TRUE)

ExtractSingleArchive ==
  /\ pc = "process"
  /\ LET p   == new_archives[idx]
         st0 == CountProcessed(extraction_stats)
     IN  IF p \in extracted_archives
           THEN Step(p, RecordSkipped(st0), extracted_archives, fs,
                     Call(p, "skipped", Rejected("none", "none"), NoDepth, FALSE,
                          NoAnswer),
                     FALSE)
         ELSE
           \E probe \in ProbesIn(world, p) :
             LET v == validate_archive(p \in fs, NameParts(p), probe, config)
             IN  \E names \in (IF v.is_valid THEN MembersIn(world, p)
                                             ELSE {{}}) :
                   LET depth == check_nested_depth(NameParts(p), names, FALSE,
                                                   0, config)
                       gate  == Gate(v.is_valid, depth[1])
                   IN  IF v = Propagated
                         THEN Step(p, st0, extracted_archives, fs,
                                   Call(p, "validation_raised", v, NoDepth,
                                        FALSE, probe),
                                   TRUE)
                       ELSE IF gate = "validation_failed"
                         THEN Step(p, RecordFailed(st0, p, "validation"),
                                   MarkProcessed(extracted_archives, p), fs,
                                   Call(p, gate, v, NoDepth, FALSE, probe),
                                   FALSE)
                       ELSE IF gate = "depth_exceeded"
                         THEN Step(p, RecordFailed(st0, p, "depth"),
                                   MarkProcessed(extracted_archives, p), fs,
                                   Call(p, gate, v, depth, FALSE, probe),
                                   FALSE)
                       ELSE \E x \in OutcomesIn(world, v.archive_type,
                                                  names) :
                              Extract(p, st0, v, depth, probe, x)

\* ------------------------------------------------------------ extract_all
\* self.extraction_stats = {...}: the attribute is bound to a new dict, and
\* the dict it was bound to (the one an earlier run returned) keeps its value.
RebindStats(old) == [ current |-> ZeroStats, earlier |-> old ]

\* The processed set carried over from the run before.
ClearProcessed_Kept(processed) == processed

\* self.extracted_archives.clear()
ClearProcessed(processed) == {}

\* The reset at the top of extract_all. It is the first call on a new
\* extractor or a further call after an earlier one returned.
StartRun ==
  /\ pc \in {"idle", "done"}
  /\ calls_left > 0
  /\ calls_left' = calls_left - 1
  /\ LET reset == RebindStats(extraction_stats)
     IN  /\ extraction_stats' = reset.current
         /\ previous' = [previous EXCEPT
                           !.object = IF previous.runs > 0 THEN reset.earlier
                                                          ELSE @]
  /\ extracted_archives' = ClearProcessed(extracted_archives)
  /\ attempts' = [p \in RootPaths |-> 0]
  /\ iteration' = 0
  /\ new_archives' = << >>
  /\ idx' = 1
  /\ last' = NoCall
  /\ pc' = "scan"
  /\ current_run' = start_extraction_run(started)
  /\ started' = started + 1
  /\ UNCHANGED << ctorVars, callVars, world, fs, stats_file, reply >>

\* The iteration count off by one.
max_iterations_OneMore(cfg) == cfg.max_nested_depth + 2

\* max_iterations = self.config.max_nested_depth + 1
max_iterations(cfg) == cfg.max_nested_depth + 1

\* The scan's result taken whole, without the filter on the processed set.
NewArchives_Unfiltered(files, processed) == Sorted(find_all_archives(files))

\* new_archives = [arch for arch in archives if arch not in self.extracted_archives]
NewArchives(files, processed) == Sorted(find_all_archives(files) \ processed)

\* One pass of `for iteration in range(max_iterations)` up to the inner loop:
\* the scan, the filter and the break on an empty list.
ScanIteration ==
  /\ pc = "scan"
  /\ iteration < max_iterations(config)
  /\ iteration' = iteration + 1
  /\ new_archives' = NewArchives(fs, extracted_archives)
  /\ idx' = 1
  /\ pc' = IF new_archives' = << >> THEN "finish" ELSE "process"
  /\ UNCHANGED << ctorVars, statVars, callVars, callerVars, fs, extracted_archives,
                  extraction_stats, attempts, last, world >>

\* range(max_iterations) is exhausted.
LoopExhausted ==
  /\ pc = "scan"
  /\ iteration >= max_iterations(config)
  /\ pc' = "finish"
  /\ UNCHANGED << ctorVars, statVars, callVars, callerVars, fs, extracted_archives,
                  extraction_stats, iteration, new_archives, idx, attempts,
                  last, world >>

\* finish_extraction_run and `return self.extraction_stats`. The keys copied
\* from run_stats into the returned dict (run_id, duration_seconds and the
\* two breakdowns) are read from `reply`.
FinishRun ==
  /\ pc = "finish"
  /\ pc' = "done"
  /\ previous' = [ runs |-> previous.runs + 1,
                   returned |-> extraction_stats,
                   object |-> extraction_stats ]
  /\ \E f \in FilesIn(world) :
       LET r == finish_extraction_run(current_run, stats_file, f)
       IN  /\ current_run' = r.current_run
           /\ stats_file' = r.stats_file
           /\ reply' = r.returned
  /\ UNCHANGED << ctorVars, callVars, calls_left, fs, extracted_archives,
                  extraction_stats, iteration, new_archives, idx, attempts,
                  last, world, started >>

\* ------------------------------------------------------ the specification
NoInput == [ path |-> "none", exists |-> FALSE, probe |-> CHOOSE pr \in FailProbes : pr.opens = "bad" ]

NoResult == Rejected("none", "none")

InitialTrees == { S \in SUBSET InitialFiles : Cardinality(S) <= MaxFiles }

\* Files about which nothing is assumed.
AnyWorld == [ kind |-> "any", k |-> 0 ]

NoPrevious == [ runs |-> 0, returned |-> ZeroStats, object |-> ZeroStats ]

\* The extractor's own state right after __init__.
Constructed ==
  /\ extracted_archives = {}
  /\ extraction_stats = ZeroStats
  /\ iteration = 0
  /\ new_archives = << >>
  /\ idx = 1
  /\ attempts = [p \in RootPaths |-> 0]
  /\ last = NoCall
  /\ previous = NoPrevious
  /\ current_run = << >>
  /\ stats_file = << >>
  /\ started = 0
  /\ reply = << >>

\* One extract_all call on a new extractor.
Init ==
  /\ config \in RunConfigs
  /\ built \in Constructions
  /\ preserve_archives = init_preserve_archives(built, config)
  /\ fs \in InitialTrees
  /\ Constructed
  /\ world = AnyWorld
  /\ calls_left = 1
  /\ pc = "idle"
  /\ vin = NoInput
  /\ validation = NoResult

Next ==
  \/ StartRun
  \/ ScanIteration
  \/ ExtractSingleArchive
  \/ LoopExhausted
  \/ FinishRun

Spec == Init /\ [][Next]_vars

\* --------------------------------------- two runs of the same extractor
\* The directory holds b.tar, which may hold c.rar, which may hold d.7z.
RerunInit ==
  /\ config \in RunConfigs
  /\ built = "from_config"
  /\ preserve_archives = init_preserve_archives(built, config)
  /\ fs = { "b.tar" }
  /\ Constructed
  /\ world = AnyWorld
  /\ calls_left = 2
  /\ pc = "idle"
  /\ vin = NoInput
  /\ validation = NoResult

RerunSpec == RerunInit /\ [][Next]_vars

\* ------------------------------------ a run on a chain of intact archives
ChainInit ==
  /\ config \in Configs
  /\ built \in Constructions
  /\ preserve_archives = init_preserve_archives(built, config)
  /\ fs = { ChainOrder[1] }
  /\ Constructed
  /\ world \in ChainWorlds
  /\ calls_left = 1
  /\ pc = "idle"
  /\ vin = NoInput
  /\ validation = NoResult

ChainSpec == ChainInit /\ [][Next]_vars

\* -------------------------------------------- the scan called on its own
ScanInit ==
  /\ config \in { c \in RunConfigs : c.max_nested_depth = 1 }
  /\ built = "config_only"
  /\ preserve_archives = TRUE
  /\ fs \in SUBSET ScanPaths
  /\ Constructed
  /\ world = AnyWorld
  /\ calls_left = 0
  /\ pc = "scan_call"
  /\ vin = NoInput
  /\ validation = NoResult

\* ArchiveExtractor.get_archive_files(directory)
GetArchiveFiles ==
  /\ pc = "scan_call"
  /\ new_archives' = Sorted(find_all_archives(fs))
  /\ pc' = "scanned"
  /\ UNCHANGED << ctorVars, statVars, callVars, callerVars, fs, extracted_archives,
                  extraction_stats, iteration, idx, attempts, last, world >>

ScanNext == GetArchiveFiles

ScanSpec == ScanInit /\ [][ScanNext]_vars

\* ------------------------------------------------ building a Config
\* Values a caller may hand in: 0 stands for a ratio below 1 (0.5, say) and
\* for a depth below 1.
RawConfigs ==
  [ max_extraction_ratio : 0..MaxRatio,
    max_nested_depth     : 0..MaxDepth,
    preserve_originals   : BOOLEAN ]

\* The dataclass defaults (100.0, 3, True), brought into the model's ranges.
DefaultConfig ==
  [ max_extraction_ratio |-> MaxRatio,
    max_nested_depth     |-> MaxDepth,
    preserve_originals   |-> TRUE ]

\* A dict of settings or of keyword overrides: << >> is a missing key (or a
\* None override), << v >> the value v.
Settings ==
  [ max_extraction_ratio : { << >> } \cup { << r >> : r \in 0..MaxRatio },
    max_nested_depth     : { << >> } \cup { << d >> : d \in 0..MaxDepth },
    preserve_originals   : { << >> } \cup { << b >> : b \in BOOLEAN } ]

NoSettings ==
  [ max_extraction_ratio |-> << >>, max_nested_depth |-> << >>,
    preserve_originals |-> << >> ]

\* Config.__post_init__: TRUE when it raises ValueError.
post_init_raises(c) ==
  c.max_extraction_ratio < 1 \/ c.max_nested_depth < 1

\* cls(**data): the given keys over the defaults.
from_dict(data) ==
  [ max_extraction_ratio |->
      IF data.max_extraction_ratio = << >>
        THEN DefaultConfig.max_extraction_ratio
        ELSE data.max_extraction_ratio[1],
    max_nested_depth |->
      IF data.max_nested_depth = << >>
        THEN DefaultConfig.max_nested_depth
        ELSE data.max_nested_depth[1],
    preserve_originals |->
      IF data.preserve_originals = << >>
        THEN DefaultConfig.preserve_originals
        ELSE data.preserve_originals[1] ]

\* Config.apply_overrides: setattr for every override that is not None.
apply_overrides(c, kw) ==
  [ max_extraction_ratio |->
      IF kw.max_extraction_ratio = << >> THEN c.max_extraction_ratio
                                         ELSE kw.max_extraction_ratio[1],
    max_nested_depth |->
      IF kw.max_nested_depth = << >> THEN c.max_nested_depth
                                     ELSE kw.max_nested_depth[1],
    preserve_originals |->
      IF kw.preserve_originals = << >> THEN c.preserve_originals
                                       ELSE kw.preserve_originals[1] ]

\* load_config: the defaults, replaced by the file's Config when the file
\* exists and loads (a ValueError from __post_init__ is logged and the
\* defaults stay), then the overrides.
load_config(file_exists, data, kw) ==
  LET loaded == from_dict(data)
      base   == IF file_exists /\ ~post_init_raises(loaded)
                  THEN loaded ELSE DefaultConfig
  IN  apply_overrides(base, kw)

\* The configurations main() can hand on: load_config with any overrides.
LoadableConfigs ==
  { load_config(FALSE, NoSettings, kw) : kw \in Settings }

ConfigInit ==
  /\ config = DefaultConfig
  /\ built = "config_only"
  /\ preserve_archives = TRUE
  /\ fs = {}
  /\ Constructed
  /\ world = AnyWorld
  /\ calls_left = 0
  /\ pc = "config"
  /\ vin = [ op |-> "Config", data |-> NoSettings ]
  /\ validation = NoResult

configVars ==
  << built, preserve_archives, fs, extracted_archives, extraction_stats,
     iteration, new_archives, idx, attempts, last, validation, world,
     previous, calls_left, current_run, stats_file, started, reply >>

\* Config.from_dict(data), and so Config(**data) and Config.from_file(path).
ConfigFromDict ==
  \E data \in Settings :
    /\ vin' = [ op |-> "from_dict", data |-> data ]
    /\ IF post_init_raises(from_dict(data))
         THEN pc' = "ValueError" /\ config' = config
         ELSE pc' = "config" /\ config' = from_dict(data)
    /\ UNCHANGED configVars

\* config.apply_overrides(**kw)
ApplyOverrides ==
  \E kw \in Settings :
    /\ vin' = [ op |-> "apply_overrides", data |-> kw ]
    /\ config' = apply_overrides(config, kw)
    /\ pc' = "config"
    /\ UNCHANGED configVars

\* load_config(config_file, **kw), the call main() makes.
LoadConfig ==
  \E file_exists \in BOOLEAN, kw \in Settings :
   \E data \in (IF file_exists THEN Settings ELSE { NoSettings }) :
    /\ vin' = [ op |-> "load_config", data |-> kw ]
    /\ config' = load_config(file_exists, data, kw)
    /\ pc' = "config"
    /\ UNCHANGED configVars

ConfigNext == ConfigFromDict \/ ApplyOverrides \/ LoadConfig

ConfigSpec == ConfigInit /\ [][ConfigNext]_vars

\* --------------------- a run started by main() on a chain of intact archives
\* main() builds the Config with load_config and hands it, with its
\* preserve_originals, to ArchiveExtractor.
MainInit ==
  /\ config \in LoadableConfigs
  /\ built = "from_config"
  /\ preserve_archives = init_preserve_archives(built, config)
  /\ fs = { ChainOrder[1] }
  /\ Constructed
  /\ world \in ChainWorlds
  /\ calls_left = 1
  /\ pc = "idle"
  /\ vin = NoInput
  /\ validation = NoResult

MainSpec == MainInit /\ [][Next]_vars

\* ------------------------------------- validate_archive called on its own
\* Names handed to the validator directly, one or more per detected type,
\* in both letter cases, and names of no supported type.
ProbePaths ==
  { "a.zip", "c.rar", "d.7z", "b.tar", "e.tar.gz", "x.tgz", "f.gz",
    "U.ZIP", "V.TAR.GZ", "w.TGZ", "n.txt", "README" }

\* A validator built from any Config; the path may or may not exist.
ValidatorInit ==
  /\ config \in { c \in Configs : c.max_nested_depth = 1 /\ c.preserve_originals }
  /\ built = "config_only"
  /\ preserve_archives = TRUE
  /\ fs = {}
  /\ Constructed
  /\ world = AnyWorld
  /\ calls_left = 0
  /\ pc = "call"
  /\ vin \in [ path : ProbePaths, exists : BOOLEAN, probe : Probes ]
  /\ validation = NoResult

ValidateArchive ==
  /\ pc = "call"
  /\ LET v == validate_archive(vin.exists, NameParts(vin.path), vin.probe,
                               config)
     IN  IF v = Propagated
           THEN pc' = "raised" /\ validation' = validation
           ELSE pc' = "returned" /\ validation' = v
  /\ UNCHANGED << ctorVars, statVars, callerVars, fs, extracted_archives,
                  extraction_stats, iteration, new_archives, idx, attempts,
                  last, world, vin >>

ValidatorNext == ValidateArchive

ValidatorSpec == ValidatorInit /\ [][ValidatorNext]_vars

\* ----------------------------------- check_nested_depth called on its own
\* The paths handed to the check: one per listed type, a .gz file and a text
\* file, which list nothing.
DepthPaths == { "a.zip", "c.rar", "d.7z", "b.tar", "e.tar.gz", "f.gz", "n.txt" }

\* Names a listing may hold (for a tar archive: of its regular files).
DepthMembers == { "n.txt", "b.tar", "U.ZIP", "x.tgz" }

\* What the listing of the file at p yields: nothing for a file of no listed
\* type; names, or an exception, for an archive.
Listings(p) ==
  IF detect_archive_type(NameParts(p)) \in {"zip", "rar", "tar", "tar.gz", "7z"}
    THEN [ names : SUBSET DepthMembers, raises : BOOLEAN ]
    ELSE { [ names |-> {}, raises |-> FALSE ] }

DepthInit ==
  /\ config \in { c \in LoadableConfigs :
                    c.max_extraction_ratio = MaxRatio /\ c.preserve_originals }
  /\ built = "config_only"
  /\ preserve_archives = TRUE
  /\ fs = {}
  /\ Constructed
  /\ world = AnyWorld
  /\ calls_left = 0
  /\ pc = "depth_call"
  /\ \E p \in DepthPaths, c \in 0..(MaxDepth + 1) :
       \E l \in Listings(p) :
         vin = [ path |-> p, listing |-> l, current_depth |-> c ]
  /\ validation = NoResult

\* validator.check_nested_depth(archive_path, current_depth)
CheckNestedDepth ==
  /\ pc = "depth_call"
  /\ reply' = check_nested_depth(NameParts(vin.path), vin.listing.names,
                                 vin.listing.raises, vin.current_depth, config)
  /\ pc' = "returned"
  /\ UNCHANGED << ctorVars, callVars, callerVars, fs, extracted_archives,
                  extraction_stats, iteration, new_archives, idx, attempts,
                  last, world, current_run, stats_file, started >>

DepthNext == CheckNestedDepth

DepthSpec == DepthInit /\ [][DepthNext]_vars

\* ------------------------------- the statistics manager called on its own
\* The archive types handed to record_archive_processed.
StatTypes == { "zip", "unknown" }

\* A run an earlier process left in the statistics file.
OldRun == NewRun(0)

\* The statistics file when the manager is built: up to KeepRuns earlier runs.
EarlierFiles ==
  { << >> } \cup { [ i \in 1..n |-> OldRun ] : n \in 1..KeepRuns }

\* The call made on the manager: its name and arguments.
StatCall(op, archive_type, success, limit, f) ==
  [ op |-> op, archive_type |-> archive_type, success |-> success,
    limit |-> limit, file |-> f ]

NoFile == [ read_ok |-> TRUE, write_ok |-> TRUE ]

StatsInit ==
  /\ config = DefaultConfig
  /\ built = "config_only"
  /\ preserve_archives = TRUE
  /\ fs = {}
  /\ extracted_archives = {}
  /\ extraction_stats = ZeroStats
  /\ iteration = 0
  /\ new_archives = << >>
  /\ idx = 1
  /\ attempts = [p \in RootPaths |-> 0]
  /\ last = NoCall
  /\ previous = NoPrevious
  /\ world = AnyWorld
  /\ calls_left = 0
  /\ pc = "stats"
  /\ vin = StatCall("StatisticsManager", "unknown", FALSE, 0, NoFile)
  /\ validation = NoResult
  /\ current_run = << >>
  /\ stats_file \in EarlierFiles
  /\ started = 0
  /\ reply = << >>

\* The variables no call on the manager touches.
engineVars ==
  << config, built, preserve_archives, fs, extracted_archives,
     extraction_stats, pc, iteration, new_archives, idx, attempts, last,
     validation, world, previous, calls_left >>

\* total_processed summed over the runs of a list.
RECURSIVE RecordedIn(_)
RecordedIn(runs) ==
  IF runs = << >> THEN 0
  ELSE runs[1].total_processed + RecordedIn(Tail(runs))

\* The archives recorded in the live run and in the runs of the file.
HeldRecords ==
  RecordedIn(current_run) + RecordedIn(stats_file)

\* stats_manager.start_extraction_run(directory): returns the run's id.
StartExtractionRun ==
  /\ started < MaxRuns
  /\ vin' = StatCall("start_extraction_run", "unknown", FALSE, 0, NoFile)
  /\ current_run' = start_extraction_run(started)
  /\ started' = started + 1
  /\ reply' = << started + 1 >>
  /\ UNCHANGED << engineVars, stats_file >>

\* stats_manager.record_archive_processed(path, archive_type, success)
RecordArchiveProcessed ==
  /\ current_run # << >> => HeldRecords < MaxRecorded
  /\ \E t \in StatTypes, success \in BOOLEAN :
       /\ vin' = StatCall("record_archive_processed", t, success, 0, NoFile)
       /\ current_run' = record_archive_processed(current_run, "a.zip", t,
                                                  success)
  /\ reply' = << >>
  /\ UNCHANGED << engineVars, stats_file, started >>

\* stats_manager.record_archive_skipped(path)
RecordArchiveSkipped ==
  /\ current_run # << >> => HeldRecords < MaxRecorded
  /\ vin' = StatCall("record_archive_skipped", "unknown", FALSE, 0, NoFile)
  /\ current_run' = record_archive_skipped(current_run)
  /\ reply' = << >>
  /\ UNCHANGED << engineVars, stats_file, started >>

\* stats_manager.finish_extraction_run()
FinishExtractionRun ==
  \E f \in FileOutcomes :
    LET r == finish_extraction_run(current_run, stats_file, f)
    IN  /\ vin' = StatCall("finish_extraction_run", "unknown", FALSE, 0, f)
        /\ current_run' = r.current_run
        /\ stats_file' = r.stats_file
        /\ reply' = r.returned
        /\ UNCHANGED << engineVars, started >>

\* stats_manager.get_recent_runs(limit)
GetRecentRuns ==
  \E limit \in 0..MaxLimit, read_ok \in BOOLEAN :
    /\ vin' = StatCall("get_recent_runs", "unknown", FALSE, limit,
                       [ read_ok |-> read_ok, write_ok |-> TRUE ])
    /\ reply' = get_recent_runs(stats_file, limit, read_ok)
    /\ UNCHANGED << engineVars, current_run, stats_file, started >>

StatsNext ==
  \/ StartExtractionRun
  \/ RecordArchiveProcessed
  \/ RecordArchiveSkipped
  \/ FinishExtractionRun
  \/ GetRecentRuns

StatsSpec == StatsInit /\ [][StatsNext]_vars

\* ================================================================ claims
Stats == extraction_stats

\* An errors entry exists for path p.
HasError(p) == \E i \in 1..Len(Stats.errors) : Stats.errors[i].path = p

\* C1: at every point of a run, and when it returns, total_processed equals
\* successful + failed + skipped.
C1_CountersAddUp ==
  Stats.total_processed = Stats.successful + Stats.failed + Stats.skipped

\* C2: when a run returns, errors holds exactly one entry per archive counted
\* as failed: len(errors) = failed.
C2_ErrorsMatchFailed ==
  pc = "done" => Len(Stats.errors) = Stats.failed

\* C3: no path is handed to _extract_single_archive twice within a run, and a
\* path that was attempted is in the processed set from then on (so before
\* the next scan).
C3_AtMostOnce ==
  \A p \in RootPaths :
    /\ attempts[p] <= 1
    /\ attempts[p] >= 1 => p \in extracted_archives

\* A second iteration whose scan still returns a path processed earlier.
C3_Witness ==
  /\ iteration >= 2
  /\ pc = "process"
  /\ \E p \in find_all_archives(fs) : attempts[p] = 1 /\ p \in extracted_archives

\* C4: a run performs at most maxNestedDepth + 1 scans, every iteration that
\* enters the inner loop has a non-empty list, a run that ends after fewer
\* scans ended on a scan that found nothing new, and a run that has not
\* returned can always take its next step.
C4_BoundedIterations ==
  /\ iteration <= config.max_nested_depth + 1
  /\ pc = "process" => idx \in 1..Len(new_archives)
  /\ (pc \in {"finish", "done"} /\ iteration < config.max_nested_depth + 1)
       => NewArchives(fs, extracted_archives) = << >>
  /\ pc # "done" => ENABLED Next

\* A run that returned because the cap was reached, with an archive on disk
\* that it never processed.
C4_Witness ==
  /\ pc = "done"
  /\ iteration = config.max_nested_depth + 1
  /\ NewArchives(fs, extracted_archives) # << >>

\* C5: for every archive type, the ratio of a ValidationResult that went
\* through the size check is total_size / compressed_size, or 1.0 when the
\* compressed size is 0; an accepted archive has a ratio <= the limit, an
\* archive rejected for ratio has a ratio > the limit, and an archive that
\* opens, is intact and needs no password is accepted exactly when its ratio
\* is <= the limit.
C5_RatioInvariant ==
  pc = "returned" =>
    LET v     == validation
        limit == config.max_extraction_ratio
        sized == v.is_valid \/ v.error_message = "ratio"
        num   == IF v.compressed_size > 0 THEN v.total_size ELSE 1
        den   == IF v.compressed_size > 0 THEN v.compressed_size ELSE 1
    IN  /\ sized => v.extraction_ratio = <<num, den>>
        /\ sized => v.total_size = vin.probe.file_size
        /\ v.is_valid => num <= limit * den
        /\ v.error_message = "ratio" => num > limit * den
        /\ sized => v.archive_type \in {"zip", "rar", "tar", "tar.gz", "7z"}
        /\ ( /\ vin.exists
             /\ vin.probe \in OkProbes
             /\ detect_archive_type(NameParts(vin.path))
                  \in {"zip", "rar", "tar", "tar.gz", "7z"} )
           => sized

\* A 7z archive whose ratio is exactly the limit 2 and that is accepted.
C5_Witness ==
  /\ pc = "returned"
  /\ validation.is_valid
  /\ validation.archive_type = "7z"
  /\ config.max_extraction_ratio = 2
  /\ validation.compressed_size = 1
  /\ validation.total_size = 2

\* C6: for an extractor built from a Configuration, a successfully extracted
\* archive is gone from disk exactly when preserve_originals is false.
C6_DeletedIffNotPreserved ==
  last.outcome = "success" =>
    (last.path \in fs <=> config.preserve_originals)

\* Non-first parts of a split archive, by name: an extension .rNN, or
\* .partN.rar with N other than 1.
NonFirstSplitPart(p) ==
  LET parts == NameParts(p)
  IN  \/ Last(parts) \in {"r00", "r01"}
      \/ /\ Len(parts) >= 3
         /\ Last(parts) = "rar"
         /\ parts[Len(parts) - 1] \in {"part2", "part3"}

\* C7: a non-first split part under the root is never validated nor
\* dispatched: the call that handles it records a skip.
C7_SplitPartsSkipped ==
  (last.path # "none" /\ NonFirstSplitPart(last.path)) =>
    /\ last.outcome = "skipped"
    /\ ~last.validated
    /\ ~last.dispatched

\* C8: no exception leaves extract_all; every archive of an iteration's list
\* before the loop position has been attempted, whatever the outcomes of the
\* ones before it; and a run that has not returned can take its next step.
C8_RunNeverAborts ==
  /\ pc # "raised"
  /\ pc = "process" => \A i \in 1..(idx - 1) : attempts[new_archives[i]] >= 1
  /\ pc \in {"scan", "finish", "done"} =>
       \A i \in 1..Len(new_archives) : attempts[new_archives[i]] >= 1
  /\ pc # "done" => ENABLED Next

\* A run that returned after the first archive it processed failed while its
\* original was being deleted, and that processed another archive after it.
C8_Witness ==
  /\ pc = "done"
  /\ Stats.total_processed >= 2
  /\ Len(Stats.errors) >= 1
  /\ Stats.errors[1].message = "unexpected"

\* C9: the dispatcher is reached only in a call whose validation accepted the
\* archive and whose depth check was within the limit; a call that rejects
\* the archive (validation, which includes the ratio, or depth) records a
\* failure with its errors entry and leaves the directory tree as it was.
C9_ChecksBeforeExtraction ==
  /\ last.dispatched => (last.is_valid /\ last.within_limit)
  /\ last.outcome \in {"validation_failed", "depth_exceeded"} =>
       /\ ~last.dispatched
       /\ ~last.touched
       /\ HasError(last.path)
       /\ Stats.failed >= 1
  /\ last.validated /\ ~last.is_valid => last.outcome = "validation_failed"
  /\ (last.validated /\ last.is_valid /\ ~last.within_limit)
       => last.outcome = "depth_exceeded"

\* An archive with a nested member rejected by the depth check.
C9_Witness ==
  /\ last.outcome = "depth_exceeded"
  /\ last.is_valid
  /\ ~last.touched

\* C10: no file is ever created outside the archive's parent directory.
C10_NoFileOutsideParent == fs \cap OutsidePaths = {}

\* C11: when a run returns, every archive file under the root is in the
\* processed set and was handed to _extract_single_archive in this run, also
\* when the run stopped at the iteration cap.
C11_NothingDropped ==
  pc = "done" =>
    \A p \in find_all_archives(fs) :
      p \in extracted_archives /\ attempts[p] >= 1

\* C12: with max_nested_depth = 1 and a directory holding only an archive
\* that holds an archive that holds an archive, the run extracts the outer
\* archive (the middle one is on disk afterwards) and ends with
\* total_processed >= 1 and a failure whose message is the depth message.
C12_OuterExtractedNestedBlocked ==
  ( /\ pc = "done"
    /\ world.kind = "chain"
    /\ world.k = 3
    /\ config.max_nested_depth = 1 )
  => /\ Stats.successful >= 1
     /\ ChainOrder[2] \in fs
     /\ Stats.total_processed >= 1
     /\ \E i \in 1..Len(Stats.errors) : Stats.errors[i].message = "depth"

\* C13: for a chain of k intact archives, preserve_originals = true and
\* max_nested_depth >= k, the run that returned extracted each archive of
\* the chain exactly once, with successful = k, failed = 0 and nothing
\* skipped, and every archive of the chain and the innermost text file are on
\* disk.
C13_ChainUnpacked ==
  ( /\ pc = "done"
    /\ world.kind = "chain"
    /\ config.preserve_originals
    /\ config.max_nested_depth >= world.k )
  => /\ Stats.successful = world.k
     /\ Stats.failed = 0
     /\ Stats.skipped = 0
     /\ Stats.total_processed = world.k
     /\ Stats.errors = << >>
     /\ \A i \in 1..Len(ChainOrder) :
          IF i <= world.k
            THEN /\ attempts[ChainOrder[i]] = 1
                 /\ ChainOrder[i] \in fs
                 /\ ChainOrder[i] \in extracted_archives
            ELSE /\ attempts[ChainOrder[i]] = 0
                 /\ ChainOrder[i] \notin fs
     /\ "n.txt" \in fs

\* A chain of two archives unpacked under max_nested_depth = 2.
C13_Witness ==
  /\ pc = "done"
  /\ world.kind = "chain"
  /\ world.k = 2
  /\ config.preserve_originals
  /\ config.max_nested_depth = 2
  /\ Stats.successful = 2
  /\ "n.txt" \in fs

\* C14: a RAR or 7z archive that reports needs_password is rejected by the
\* validator with the password message, is not dispatched, leaves the
\* directory as it was and is recorded as failed with an errors entry; and
\* the dispatcher of rar and 7z, if it is reached for such an archive,
\* returns false and writes nothing.
C14_PasswordProtectedNeverExtracted ==
  /\ (last.validated /\ last.needs_password) =>
       /\ last.outcome = "validation_failed"
       /\ last.error_message = "password"
       /\ last.archive_type \in {"rar", "7z"}
       /\ ~last.dispatched
       /\ ~last.touched
       /\ Stats.failed >= 1
       /\ HasError(last.path)
       /\ last.path \in extracted_archives
  /\ \A probe \in { pr \in Probes : pr.needs_password } :
       \A x \in ExtractAllOutcomes("rar", {"n.txt"}) :
         extract_guarded(probe, x) = [ success |-> FALSE, created |-> {} ]

\* A password-protected RAR rejected by the validator.
C14_Witness ==
  /\ last.needs_password
  /\ last.path = "c.rar"
  /\ last.outcome = "validation_failed"
  /\ last.error_message = "password"

TagOf(path, gz_tag) ==
  CASE path \in {"a.zip", "U.ZIP"}                         -> "zip"
    [] path = "c.rar"                                       -> "rar"
    [] path = "d.7z"                                        -> "7z"
    [] path = "b.tar"                                       -> "tar"
    [] path \in {"e.tar.gz", "V.TAR.GZ", "x.tgz", "w.TGZ"}  -> "tar.gz"
    [] path = "f.gz"                                        -> gz_tag
    [] OTHER                                                -> "none"

\* C16 as stated: the detector maps every name to its tag among zip, rar,
\* 7z, tar, tar.gz, and every other extension (.gz included) to absent.
C16_DetectorFiveTags ==
  pc = "returned" =>
    LET t == detect_archive_type(NameParts(vin.path))
    IN  /\ t = TagOf(vin.path, "none")
        /\ t \in {"zip", "rar", "7z", "tar", "tar.gz", "none"}

\* C16 amended: as above, but a final extension .gz maps to the tag gz, so
\* the result is one of zip, rar, 7z, tar, tar.gz, gz or absent; and
\* validate_archive answers "unsupported" exactly for the existing paths
\* whose tag is absent.
C16_DetectorSixTags ==
  LET t == detect_archive_type(NameParts(vin.path))
  IN  /\ t = TagOf(vin.path, "gz")
      /\ t \in {"zip", "rar", "7z", "tar", "tar.gz", "gz", "none"}
      /\ (pc = "returned" /\ vin.exists) =>
           (validation.error_message = "unsupported" <=> t = "none")

\* validate_archive was called on an existing f.gz: the detector gave the
\* tag gz, for which no validation exists.
C16_Witness ==
  /\ pc = "returned"
  /\ vin.path = "f.gz"
  /\ vin.exists
  /\ validation.error_message = "not_implemented"
  /\ detect_archive_type(NameParts(vin.path)) = "gz"

\* The elements of a sequence.
Elements(seq) == { seq[i] : i \in 1..Len(seq) }

\* A name that ends in an incomplete-download suffix.
IncompleteDownload(p) ==
  Lower(Last(NameParts(p))) \in {"part", "!qb", "crdownload", "tmp"}

\* C17: the scan returns, once each, exactly the files under the root whose
\* name the type detector gives a tag and that do not end in an
\* incomplete-download suffix: none is missed, and no directory and no file
\* of another type is returned.
C17_ScanExact ==
  pc = "scanned" =>
    /\ Elements(new_archives) =
         { p \in fs : /\ p \notin Directories
                      /\ detect_archive_type(NameParts(p)) # "none"
                      /\ ~IncompleteDownload(p) }
    /\ Len(new_archives) = Cardinality(Elements(new_archives))

\* The position of a path in ascending path order.
Rank(p) == CHOOSE i \in 1..Len(PathOrder) : PathOrder[i] = p

\* C18: the list an iteration works through is in strictly ascending path
\* order and is fixed by the directory and the processed set at the scan;
\* the archives are handled in list order (those before the loop position
\* have been attempted, the latest being the one just before it, those from
\* the position on have not), so the order of processing, and with it the
\* counters and errors, is a function of the filesystem state, the
\* configuration and the codecs' answers.
C18_AscendingDeterministicOrder ==
  /\ \A i, j \in 1..Len(new_archives) :
       i < j => Rank(new_archives[i]) < Rank(new_archives[j])
  /\ (pc = "process" /\ idx = 1) =>
       Elements(new_archives) = find_all_archives(fs) \ extracted_archives
  /\ pc = "process" =>
       /\ \A i \in 1..Len(new_archives) :
            attempts[new_archives[i]] = (IF i < idx THEN 1 ELSE 0)
       /\ idx > 1 => last.path = new_archives[idx - 1]
  /\ (pc = "scan" /\ iteration > 0) =>
       last.path = new_archives[Len(new_archives)]

\* An iteration with two new archives, the first just handled.
C18_Witness ==
  /\ pc = "process"
  /\ idx = 2
  /\ new_archives = << "a.zip", "b.tar" >>
  /\ last.path = "a.zip"

\* C19: the Config a caller holds always has max_extraction_ratio >= 1 and
\* max_nested_depth >= 1, whatever sequence of from_dict, from_file,
\* apply_overrides and load_config calls produced it, and a construction
\* with a smaller value raises ValueError.
C19_ConfigConstraints ==
  /\ config.max_extraction_ratio >= 1
  /\ config.max_nested_depth >= 1
  /\ (vin.op = "from_dict" /\ post_init_raises(from_dict(vin.data)))
       => pc = "ValueError"

\* The number of _extract_single_archive calls of the current run.
RECURSIVE SumAttempts(_)
SumAttempts(S) ==
  IF S = {} THEN 0
  ELSE LET p == CHOOSE q \in S : TRUE
       IN  attempts[p] + SumAttempts(S \ {p})

\* C20: a run starts with an empty processed set and zeroed counters with
\* an empty errors list, whatever the extractor did before; its counters
\* and errors are about the archives handled in this run only; the dict an
\* earlier run returned keeps the value it was returned with; and during a
\* run no path leaves the processed set.
C20_FreshRun ==
  /\ [](/\ (pc = "scan" /\ iteration = 0) =>
             (extraction_stats = ZeroStats /\ extracted_archives = {})
        /\ pc \notin {"idle", "done"} =>
             /\ Stats.total_processed = SumAttempts(RootPaths)
             /\ \A i \in 1..Len(Stats.errors) :
                  attempts[Stats.errors[i].path] >= 1
             /\ \A p \in extracted_archives : attempts[p] >= 1
        /\ previous.object = previous.returned)
  /\ [][pc \notin {"idle", "done"} =>
           extracted_archives \subseteq extracted_archives']_vars

\* A second run at work on an archive, after a first run that returned a
\* failure.
C20_Witness ==
  /\ previous.runs = 1
  /\ previous.returned.failed >= 1
  /\ pc = "process"
  /\ Stats.total_processed >= 1
  /\ Stats # previous.returned

\* What the listing handed to the latest check_nested_depth call showed: the
\* names, and none when the listing raised.
ListedNames == IF vin.listing.raises THEN {} ELSE vin.listing.names

\* C21: check_nested_depth(archive, c) looks at the archive's direct member
\* names only: it returns (false, c) when c >= maxNestedDepth; otherwise,
\* when some listed name has a supported archive extension, it returns depth
\* c + 1 with withinLimit = (c + 1 < maxNestedDepth); otherwise (true, c).
\* Several nested archives at the same level count as one level.
C21_DepthCheckOneLevel ==
  pc = "returned" =>
    LET c == vin.current_depth
        nested == \E n \in ListedNames : TagOf(n, "gz") # "none"
    IN  IF c >= config.max_nested_depth THEN reply = << FALSE, c >>
        ELSE IF nested
          THEN reply = << c + 1 < config.max_nested_depth, c + 1 >>
        ELSE reply = << TRUE, c >>

\* A check below the limit of an archive that lists two nested archives.
C21_Witness ==
  /\ pc = "returned"
  /\ vin.current_depth + 1 < config.max_nested_depth
  /\ ~vin.listing.raises
  /\ {"b.tar", "U.ZIP"} \subseteq vin.listing.names
  /\ reply = << TRUE, vin.current_depth + 1 >>

\* The sum of the counts of a per-type breakdown over the types of S.
RECURSIVE SumByType(_, _)
SumByType(counts, S) ==
  IF S = {} THEN 0
  ELSE LET t == CHOOSE x \in S : TRUE
       IN  counts[t] + SumByType(counts, S \ {t})

\* C22: after any sequence of record_archive_processed and
\* record_archive_skipped calls inside an active run, the run's counters
\* satisfy total_processed = successful + failed + skipped, the number of
\* per-archive entries equals successful + failed, and the per-type counts of
\* archives_by_type sum to successful + failed.
C22_RunCountersAddUp ==
  current_run # << >> =>
    LET r == current_run[1]
    IN  /\ r.total_processed = r.successful + r.failed + r.skipped
        /\ Len(r.archives) = r.successful + r.failed
        /\ SumByType(r.archives_by_type, DOMAIN r.archives_by_type)
             = r.successful + r.failed

\* An active run that recorded a success of one type and a failure of
\* another.
C22_Witness ==
  /\ current_run # << >>
  /\ current_run[1].successful = 1
  /\ current_run[1].failed = 1
  /\ current_run[1].archives_by_type["zip"] = 1
  /\ current_run[1].archives_by_type["unknown"] = 1
  /\ Len(current_run[1].archives) = 2

\* C23: the run lifecycle is start -> record* -> finish. A
\* record_archive_processed or record_archive_skipped call made while no run
\* is active changes nothing (no run is created, no counter changes); a
\* finish_extraction_run call made while no run is active returns None and
\* writes nothing; a finish_extraction_run call on an active run returns the
\* completed run and leaves no run active, and when its save went through the
\* run is the newest of the persisted recent runs, placed after the runs that
\* were there when the file had room.
C23_RunLifecycle ==
  [][ /\ ( /\ vin'.op \in {"record_archive_processed", "record_archive_skipped"}
           /\ current_run = << >> )
        => /\ current_run' = << >>
           /\ stats_file' = stats_file
           /\ started' = started
      /\ ( vin'.op = "finish_extraction_run" /\ current_run = << >> )
        => /\ reply' = << >>
           /\ stats_file' = stats_file
           /\ current_run' = << >>
      /\ ( vin'.op = "finish_extraction_run" /\ current_run # << >> )
        => /\ reply' = current_run
           /\ current_run' = << >>
           /\ vin'.file.write_ok =>
                /\ stats_file' # << >>
                /\ Last(stats_file') = current_run[1]
                /\ Len(stats_file') <= KeepRuns
           /\ ( vin'.file.write_ok /\ vin'.file.read_ok
                /\ Len(stats_file) < KeepRuns )
                => stats_file' = Append(stats_file, current_run[1])
    ]_vars

\* A run with a recorded archive was finished and saved behind an earlier
\* run: none is active and the file ends with it.
C23_Witness ==
  /\ vin.op = "finish_extraction_run"
  /\ vin.file.write_ok
  /\ vin.file.read_ok
  /\ reply # << >>
  /\ reply[1].total_processed >= 1
  /\ current_run = << >>
  /\ Len(stats_file) = 2
  /\ stats_file[2] = reply[1]

\* C24: get_recent_runs(limit) returns at most limit runs, for every
\* limit >= 0 and every number of stored runs: they are the most recently
\* finished runs, ordered most recent first.
C24_AtMostLimitNewestFirst ==
  vin.op = "get_recent_runs" =>
    /\ Len(reply) <= vin.limit
    /\ vin.file.read_ok =>
         /\ Len(reply) = IF vin.limit <= Len(stats_file) THEN vin.limit
                                                        ELSE Len(stats_file)
         /\ \A i \in 1..Len(reply) : reply[i] = stats_file[Len(stats_file) + 1 - i]

\* The archives the inner loop has still to process in this iteration.
StillToProcess == { new_archives[j] : j \in (idx + 1)..Len(new_archives) }

\* C25: each scan iteration extracts one nesting level. The list of new
\* archives is fixed by the scan at the start of the iteration: it holds the
\* unprocessed archives that are on disk at that moment, and processing an
\* archive leaves it as it is. So an archive file that an extraction creates
\* during iteration i is not processed during iteration i; the scan of
\* iteration i + 1 is the first to list it, and an archive is processed only
\* in an iteration numbered at most maxNestedDepth + 1.
C25_OneLevelPerIteration ==
  [][ /\ pc = "process" =>
           /\ new_archives' = new_archives
           /\ iteration' = iteration
           /\ iteration <= config.max_nested_depth + 1
           /\ (fs' \ fs) \cap StillToProcess = {}
      /\ ( pc = "scan" /\ iteration' = iteration + 1 ) =>
           /\ iteration' <= config.max_nested_depth + 1
           /\ \A q \in fs :
                ( /\ \E pat \in ScanPatterns : GlobMatches(NameParts(q), pat)
                  /\ q \notin extracted_archives )
                <=> \E j \in 1..Len(new_archives') : new_archives'[j] = q
    ]_vars

\* The second iteration has processed b.tar, which was not on disk when the
\* first iteration scanned: the extraction of a.zip created it.
C25_Witness ==
  /\ pc = "scan"
  /\ iteration = 2
  /\ new_archives = << "b.tar" >>
  /\ "a.zip" \in extracted_archives
  /\ last.path = "b.tar"
  /\ last.outcome = "success"

\* C26: the loop calls the depth check with current depth 0 and the check is
\* one level deep, so the depth found is at most 1: under every configuration
\* with maxNestedDepth >= 2 the depth check rejects no archive, and a
\* depth-exceeded failure is recorded only when maxNestedDepth = 1 and the
\* archive has a direct member with an archive extension.
C26_DepthRejectsOnlyAtOne ==
  /\ last.nested_depth <= 1
  /\ config.max_nested_depth >= 2 => last.outcome # "depth_exceeded"
  /\ last.outcome = "depth_exceeded" =>
       /\ config.max_nested_depth = 1
       /\ NestedNames(ChainMembers(world.k, last.path)) # {}

\* C27: in every run of extract_all the skipped counter stays 0: the
\* per-archive step is called on paths filtered out of the processed set, the
\* scan's list has no duplicate path, so the "already processed" branch is
\* never taken (by the engine's counter and by the recorder's) and every
\* processed archive is counted as successful or failed.
C27_NothingSkipped ==
  /\ Stats.skipped = 0
  /\ last.outcome # "skipped"
  /\ current_run # << >> => current_run[1].skipped = 0
  /\ \A i, j \in 1..Len(new_archives) :
       new_archives[i] = new_archives[j] => i = j
  /\ pc = "process" => new_archives[idx] \notin extracted_archives
  /\ Stats.successful + Stats.failed >= Stats.total_processed

\* A run of two iterations returned: a.zip was processed in the first, is
\* still on disk and was found again by the second scan.
C27_Witness ==
  /\ pc = "done"
  /\ iteration >= 2
  /\ "a.zip" \in fs
  /\ "a.zip" \in extracted_archives
  /\ attempts["a.zip"] = 1
  /\ Stats.total_processed >= 2

\* C28: the engine's counters and the statistics recorder agree: when a run
\* of extract_all returns, the run record that finish_extraction_run returned
\* has total_processed, successful, failed and skipped equal to the engine's,
\* every processed archive having been reported to the recorder exactly once
\* (also when deleting the original fails after a successful extraction).
C28_RecorderAgrees ==
  ( pc = "done" /\ reply # << >> ) =>
    /\ reply[1].total_processed = Stats.total_processed
    /\ reply[1].successful = Stats.successful
    /\ reply[1].failed = Stats.failed
    /\ reply[1].skipped = Stats.skipped
    /\ Len(reply[1].archives) = Stats.total_processed

\* C29: at every point between two archives of a run, and when the run
\* returns, the number of paths in the processed set equals total_processed:
\* each call of the per-archive step adds exactly one new path to the set and
\* raises total_processed by exactly one, on every exit path (validation
\* failure, depth failure, success, dispatcher failure, exception).
C29_ProcessedSetMatchesCounter ==
  /\ [](Cardinality(extracted_archives) = Stats.total_processed)
  /\ [][ pc = "process" =>
           /\ new_archives[idx] \notin extracted_archives
           /\ extracted_archives' = extracted_archives \cup { new_archives[idx] }
           /\ extraction_stats'.total_processed = Stats.total_processed + 1
           /\ last'.path = new_archives[idx]
           /\ last'.outcome \in { "validation_failed", "depth_exceeded",
                                  "success", "dispatch_failed", "remove_failed" }
       ]_vars

\* A run returned after one archive failed validation, one was extracted and
\* one failed while its original was being deleted.
C29_Witness ==
  /\ pc = "done"
  /\ Cardinality(extracted_archives) = 3
  /\ Stats.total_processed = 3
  /\ Stats.successful = 2
  /\ Stats.failed = 2
  /\ \E i \in 1..Len(Stats.errors) : Stats.errors[i].message = "validation"
  /\ \E i \in 1..Len(Stats.errors) : Stats.errors[i].message = "unexpected"

\* C30: for every existing path whose detected type is tar or tar.gz, the
\* archive_type of the ValidationResult that validate_archive returns
\* (accepted, rejected for ratio, or rejected as an invalid TAR) equals the
\* type detect_archive_type returns for that path, in every letter case of
\* the extension (x.tar.gz, x.TAR.GZ, x.tgz, x.TGZ, x.tar).
C30_TarTypeMatchesDetected ==
  ( /\ pc = "returned"
    /\ vin.exists
    /\ TagOf(vin.path, "gz") \in { "tar", "tar.gz" }
    /\ validation.error_message \in { "none", "ratio", "invalid" } )
  => validation.archive_type = TagOf(vin.path, "gz")

====
